---- MODULE Spec2Model ----
(***************************************************************************)
(* A model of codecraft: the CodeBuilder facade (core/builder.py), its     *)
(* scoped contexts (core/context.py), the node classes (core/node.py,      *)
(* elements/*.py), the IndentationManager (utils/indentation.py) and the   *)
(* ImportManager (elements/imports.py).                                    *)
(*                                                                         *)
(* Python strings are TLA+ strings, built with \o where the code formats   *)
(* them.  Python compares strings by code point; CodePoints gives the code *)
(* points of the names the model draws its inputs from.  A Python set is a *)
(* bag of elements (the code's __eq__ decides membership) whose iteration  *)
(* order is any order.                                                     *)
(***************************************************************************)
EXTENDS Bags, FiniteSets, Integers, Sequences, TLC

\* ------------------------------------------------------------------ bounds
\* Calls made on one ImportManager between two clear() calls.
MaxCalls == 3
\* Calls in each of the two call sequences compared for order-independence.
MaxPermCalls == 2
\* Node objects one builder session constructs.
MaxNodes == 2
\* Nested with-statements the caller has open at once.
MaxDepth == 3
\* Node objects of a session built with configured indentation.
MaxIndentNodes == 4
\* Objects of a session of classes, methods, if blocks and their leaves.
MaxScopedNodes == 3
\* Node objects of a session of builder operations only.
MaxBuilderNodes == 4

\* ------------------------------------------------------ program constants
\* CodeBuilder.__init__(indent_size=4, indent_char=" ")
IndentSize == 4
IndentChar == " "

\* ------------------------------------------------------------------ inputs
None == "<None>"

\* Arguments of CodeBuilder(indent_size, indent_char)
IndentConfigs == {<<2, " ">>, <<4, "\t">>}

Modules == {"os", "sys", "typing"}
Aliases == {None, "o"}
Items == {"Dict", "List"}
ItemLists == {<<"Dict">>, <<"List">>, <<"List", "Dict">>, <<"Dict", "List">>,
              <<"List", "List">>}

\* Code points of the names above (Python's str ordering compares these).
CodePoints ==
    [s \in Modules \cup Items |->
        CASE s = "os"     -> <<111, 115>>
          [] s = "sys"    -> <<115, 121, 115>>
          [] s = "typing" -> <<116, 121, 112, 105, 110, 103>>
          [] s = "Dict"   -> <<68, 105, 99, 116>>
          [] s = "List"   -> <<76, 105, 115, 116>>]

\* ----------------------------------------------------------------- helpers
Range(s) == {s[i] : i \in DOMAIN s}

\* Python's sequence comparison a < b (lexicographic, shorter prefix first).
RECURSIVE SeqLess(_, _)
SeqLess(a, b) ==
    IF b = <<>> THEN FALSE
    ELSE IF a = <<>> THEN TRUE
    ELSE IF Head(a) # Head(b) THEN Head(a) < Head(b)
    ELSE SeqLess(Tail(a), Tail(b))

\* str.__lt__
StrLess(a, b) == SeqLess(CodePoints[a], CodePoints[b])

\* ", ".join(items)
RECURSIVE JoinComma(_)
JoinComma(items) ==
    IF items = <<>> THEN ""
    ELSE IF Len(items) = 1 THEN items[1]
    ELSE items[1] \o ", " \o JoinComma(Tail(items))

\* The orders in which a Python set holding the elements of bag B can be
\* iterated: every arrangement of its elements.
BagSize(B) == BagCardinality(B)

Arrangements(B) ==
    {s \in [1..BagSize(B) -> BagToSet(B)] :
        \A e \in BagToSet(B) : Cardinality({i \in 1..BagSize(B) : s[i] = e}) = CopiesIn(e, B)}

\* list(set(xs)): the distinct elements of xs, in any order.
ListOfSet(xs) ==
    {s \in [1..Cardinality(Range(xs)) -> Range(xs)] :
        \A i, j \in 1..Cardinality(Range(xs)) : s[i] = s[j] => i = j}

\* sorted(xs, key=lambda x: x.module): a stable insertion sort by module.
RECURSIVE InsertByModule(_, _)
InsertByModule(sorted, x) ==
    IF sorted = <<>> THEN <<x>>
    ELSE IF StrLess(x.module, Head(sorted).module)
         THEN <<x>> \o sorted
         ELSE <<Head(sorted)>> \o InsertByModule(Tail(sorted), x)

RECURSIVE SortedByModule(_)
SortedByModule(xs) ==
    IF xs = <<>> THEN <<>>
    ELSE InsertByModule(SortedByModule(SubSeq(xs, 1, Len(xs) - 1)), xs[Len(xs)])

\* ------------------------------------------------------------ import nodes
\* ImportNode(module, alias) and FromImportNode(module, items)
ImportNode(module, alias) == [cls |-> "ImportNode", module |-> module, alias |-> alias]

FromImportNode(module, items) == [cls |-> "FromImportNode", module |-> module, items |-> items]

\* ImportNode.__eq__ (other is an ImportNode)
ImportNodeEqIdentity(a, b) == FALSE

ImportNodeEq(a, b) == a.module = b.module /\ a.alias = b.alias

\* FromImportNode.__eq__ (other is a FromImportNode)
FromImportNodeEq(a, b) == a.module = b.module /\ Range(a.items) = Range(b.items)

\* sorted(items): an insertion sort by str.__lt__.
RECURSIVE InsertItem(_, _)
InsertItem(sorted, x) ==
    IF sorted = <<>> THEN <<x>>
    ELSE IF StrLess(x, Head(sorted))
         THEN <<x>> \o sorted
         ELSE <<Head(sorted)>> \o InsertItem(Tail(sorted), x)

RECURSIVE SortedItemsOf(_)
SortedItemsOf(xs) ==
    IF xs = <<>> THEN <<>>
    ELSE InsertItem(SortedItemsOf(SubSeq(xs, 1, Len(xs) - 1)), xs[Len(xs)])

\* ImportNode.__hash__ / FromImportNode.__hash__: the tuple that is hashed.
ImportNodeHash(n) == <<n.module, n.alias>>

FromImportNodeHash(n) == <<n.module, SortedItemsOf(n.items)>>

\* ImportNode.render / FromImportNode.render
ImportNodeRender(n) ==
    IF n.alias # None /\ n.alias # ""
    THEN "import " \o n.module \o " as " \o n.alias
    ELSE "import " \o n.module

FromImportNodeRenderSorted(n) ==
    "from " \o n.module \o " import " \o
        JoinComma(IF Len(n.items) = 2 /\ StrLess(n.items[2], n.items[1])
                  THEN <<n.items[2], n.items[1]>> ELSE n.items)

FromImportNodeRender(n) == "from " \o n.module \o " import " \o JoinComma(n.items)

RenderImport(n) ==
    IF n.cls = "ImportNode" THEN ImportNodeRender(n) ELSE FromImportNodeRender(n)

\* ----------------------------------------------------------- ImportManager
\* set.add(x) on the set of ImportNode: a no-op when an element of the same
\* hash that is equal to x is in.
ImportsAdd(S, x) ==
    IF \E e \in BagToSet(S) : ImportNodeHash(e) = ImportNodeHash(x) /\ ImportNodeEq(e, x)
    THEN S ELSE S (+) SetToBag({x})

FromImportsAdd(S, x) ==
    IF \E e \in BagToSet(S) :
          FromImportNodeHash(e) = FromImportNodeHash(x) /\ FromImportNodeEq(e, x)
    THEN S ELSE S (+) SetToBag({x})

\* ImportManager.add_import: the new _imports.
IM_add_import(imps, module, alias) == ImportsAdd(imps, ImportNode(module, alias))

\* ImportManager.add_from_import: the possible new _from_imports.  The loop
\* finds an existing entry of the module; the merged item list is
\* list(set(existing.items + items)).
IM_add_from_import_NoMerge(fimps, module, items) ==
    {FromImportsAdd(fimps, FromImportNode(module, items))}

IM_add_from_import_Overwrite(fimps, module, items) ==
    LET found == {e \in BagToSet(fimps) : e.module = module} IN
    IF found = {}
    THEN {FromImportsAdd(fimps, FromImportNode(module, items))}
    ELSE {FromImportsAdd(fimps (-) SetToBag({existing}), FromImportNode(module, items)) :
             existing \in found}

IM_add_from_import(fimps, module, items) ==
    LET found == {e \in BagToSet(fimps) : e.module = module} IN
    IF found = {}
    THEN {FromImportsAdd(fimps, FromImportNode(module, items))}
    ELSE UNION {
           {FromImportsAdd(fimps (-) SetToBag({existing}), FromImportNode(module, merged)) :
               merged \in ListOfSet(existing.items \o items)} :
           existing \in found}

\* ImportManager.get_import_nodes: the possible results.
IM_get_import_nodes_Unsorted(imps, fimps) ==
    {a \o b : a \in Arrangements(imps), b \in Arrangements(fimps)}

IM_get_import_nodes_FromFirst(imps, fimps) ==
    {SortedByModule(b) \o SortedByModule(a) :
        a \in Arrangements(imps), b \in Arrangements(fimps)}

IM_get_import_nodes(imps, fimps) ==
    {SortedByModule(a) \o SortedByModule(b) :
        a \in Arrangements(imps), b \in Arrangements(fimps)}

\* The rendered lines of a node list.
RenderAll(ns) == [i \in DOMAIN ns |-> RenderImport(ns[i])]

\* What a call returns: None, or a list.
ReturnNone == [kind |-> "None"]
ReturnList(v) == [kind |-> "list", value |-> v]

\* =================================================================== state
VARIABLES
    nodes,          \* every Node object created: index -> its fields
    root,           \* CodeBuilder._nodes: indices into nodes
    stack,          \* CodeBuilder._context_stack: the node of each context
    level,          \* IndentationManager.level
    frames,         \* the caller's open with-statements, innermost last
    exc,            \* the exception propagating in the caller, or None
    imports,        \* ImportManager._imports
    from_imports,   \* ImportManager._from_imports
    calls,          \* the add calls made on the ImportManager since clear()
    result,         \* the value the last call returned
    imports2,       \* a second ImportManager: _imports
    from_imports2,  \* a second ImportManager: _from_imports
    pending,        \* calls made on the first manager, not yet on the second
    result2,        \* the value the last call on the second manager returned
    _indent_size,   \* CodeBuilder._indent_size
    _indent_char,   \* CodeBuilder._indent_char
    budget          \* the objects this builder session is explored up to

builderVars == <<nodes, root, stack, level, frames, exc>>
managerVars == <<imports, from_imports, calls, result>>
secondVars == <<imports2, from_imports2, pending, result2>>
configVars == <<_indent_size, _indent_char, budget>>
vars == <<nodes, root, stack, level, frames, exc, imports, from_imports, calls,
          result, imports2, from_imports2, pending, result2, _indent_size,
          _indent_char, budget>>

\* CodeBuilder.__init__(indent_size, indent_char); max_held bounds the session.
Construct(indent_size, indent_char, max_held) ==
    /\ _indent_size = indent_size
    /\ _indent_char = indent_char
    /\ budget = max_held

\* CodeBuilder.__init__ / ImportManager.__init__
BuilderInit ==
    /\ Construct(IndentSize, IndentChar, MaxNodes)
    /\ nodes = <<>>
    /\ root = <<>>
    /\ stack = <<>>
    /\ level = 0
    /\ frames = <<>>
    /\ exc = None

ManagerInit ==
    /\ imports = EmptyBag
    /\ from_imports = EmptyBag
    /\ calls = <<>>
    /\ result = ReturnNone

SecondInit ==
    /\ imports2 = EmptyBag
    /\ from_imports2 = EmptyBag
    /\ pending = EmptyBag
    /\ result2 = ReturnNone

Init == BuilderInit /\ ManagerInit /\ SecondInit

\* A call made on an ImportManager, as recorded in calls.
AddImportCall(module, alias) == [op |-> "add_import", module |-> module, arg |-> alias]
AddFromImportCall(module, items) == [op |-> "add_from_import", module |-> module, arg |-> items]

\* ============================================================ the builder
\* ---------------------------------------------------------------- nodes
\* Node.__init__ and the subclasses' __init__: every node has indent_level
\* and children; ClassNode has attributes and docstring, FunctionNode has
\* docstring.  op is the builder operation that constructed the node.
Node(cls, op, indent_level, args) ==
    [cls |-> cls, op |-> op, indent_level |-> indent_level, args |-> args,
     children |-> <<>>, attributes |-> <<>>, docstring |-> None]

ClassNode(name, bases, decorators, indent_level) ==
    Node("ClassNode", "class_", indent_level,
         [name |-> name,
          bases |-> IF bases = None THEN <<>> ELSE bases,
          decorators |-> IF decorators = None THEN <<>> ELSE decorators])

FunctionNode(name, params, returns, decorators, async_, indent_level) ==
    Node("FunctionNode", "function", indent_level,
         [name |-> name,
          params |-> IF params = None THEN <<>> ELSE params,
          returns |-> returns,
          decorators |-> IF decorators = None THEN <<>> ELSE decorators,
          async_ |-> async_])

\* "self" in p or "cls" in p, for the parameter strings the model uses.
MentionsSelfOrCls(p) == p \in {"self", "cls", "self: T", "myself", "cls_name"}

MethodNode(name, params, returns, decorators, async_, indent_level) ==
    Node("MethodNode", "method", indent_level,
         [name |-> name,
          params |-> IF params = None \/ params = <<>> THEN <<"self">>
                     ELSE IF ~MentionsSelfOrCls(params[1]) THEN <<"self">> \o params
                     ELSE params,
          returns |-> returns,
          decorators |-> IF decorators = None THEN <<>> ELSE decorators,
          async_ |-> async_])

IfNode(condition, indent_level) ==
    Node("IfNode", "if_", indent_level, [condition |-> condition])
ElifNode(condition, indent_level) ==
    Node("ElifNode", "elif_", indent_level, [condition |-> condition])
ElseNode(indent_level) == Node("ElseNode", "else_", indent_level, [none |-> None])
ForNode(target, iterable, indent_level) ==
    Node("ForNode", "for_", indent_level, [target |-> target, iterable |-> iterable])
WhileNode(condition, indent_level) ==
    Node("WhileNode", "while_", indent_level, [condition |-> condition])
TryNode(indent_level) == Node("TryNode", "try_", indent_level, [none |-> None])
ExceptNode(exception, as_, indent_level) ==
    Node("ExceptNode", "except_", indent_level, [exception |-> exception, as_ |-> as_])
FinallyNode(indent_level) == Node("FinallyNode", "finally_", indent_level, [none |-> None])
WithNode(expression, as_, indent_level) ==
    Node("WithNode", "with_", indent_level, [expression |-> expression, as_ |-> as_])

RawLineNode(op, code, indent_level) == Node("RawLineNode", op, indent_level, [code |-> code])
BlankLineNode == Node("BlankLineNode", "blank_line", 0, [none |-> None])
CommentNode(text, indent_level) == Node("CommentNode", "comment", indent_level, [text |-> text])
DocstringNode(text, indent_level) ==
    Node("DocstringNode", "docstring", indent_level, [text |-> text])
AttributeNode(name, type_hint, default, indent_level) ==
    Node("AttributeNode", "attr", indent_level,
         [name |-> name, type_hint |-> type_hint, default |-> default])

\* ------------------------------------------------- IndentationManager
increaseNoop(l) == l

increase(l) == l + 1

decreaseNoop(l) == l

decrease(l) == IF l - 1 > 0 THEN l - 1 ELSE 0

\* The nodes of the block operations: each is held by the context object
\* its operation yields.
IsBlock(n) == n.cls \notin {"RawLineNode", "BlankLineNode", "CommentNode", "DocstringNode",
                            "AttributeNode"}

\* ------------------------------------------------ the context stack
\* A context object: its class and its node (an index into nodes).
Context(cls, node) == [ctx |-> cls, node |-> node]

ContextOf(n) ==
    IF n.cls = "ClassNode" THEN "ClassContext"
    ELSE IF n.cls \in {"FunctionNode", "MethodNode"} THEN "FunctionContext"
    ELSE "ControlFlowContext"

\* CodeBuilder._push_context / _pop_context / _current_context
push_context(st, c) == Append(st, c)

pop_context_Keep(st) == st

pop_context_First(st) == IF st # <<>> THEN Tail(st) ELSE st

pop_context(st) == IF st # <<>> THEN SubSeq(st, 1, Len(st) - 1) ELSE st

current_context(st) == IF st # <<>> THEN st[Len(st)] ELSE None

\* Node.add_child on node p of ns
add_child_First(ns, p, c) == [ns EXCEPT ![p].children = <<c>> \o @]

add_child(ns, p, c) == [ns EXCEPT ![p].children = Append(@, c)]

\* CodeBuilder._add_node: the node n is constructed (it becomes the next
\* index of nodes) and appended to the current context's node, or to _nodes.
\* The result is the new nodes and the new _nodes.
add_node_Both(ns, rt, st, n) ==
    LET id == Len(ns) + 1 IN
    IF st # <<>>
    THEN [nodes |-> add_child(Append(ns, n), st[Len(st)].node, id), root |-> Append(rt, id)]
    ELSE [nodes |-> Append(ns, n), root |-> Append(rt, id)]

add_node_Root(ns, rt, st, n) ==
    [nodes |-> Append(ns, n), root |-> Append(rt, Len(ns) + 1)]

add_node(ns, rt, st, n) ==
    LET id == Len(ns) + 1 IN
    IF st # <<>>
    THEN [nodes |-> add_child(Append(ns, n), st[Len(st)].node, id), root |-> rt]
    ELSE [nodes |-> Append(ns, n), root |-> Append(rt, id)]

\* CodeBuilder._add_node for the node id, which was constructed before: it
\* is appended once more.
add_held_node(ns, rt, st, id) ==
    IF st # <<>>
    THEN [nodes |-> add_child(ns, st[Len(st)].node, id), root |-> rt]
    ELSE [nodes |-> ns, root |-> Append(rt, id)]

\* -------------------------------------------------------------- actions
\* The caller can call the builder when no exception is propagating.
Running == exc = None

\* The places nodes take in the lists of the nodes 1..i of ns: a node takes
\* one place where it is constructed and one more each time its context is
\* entered again.
RECURSIVE Places(_, _)
Places(ns, i) ==
    IF i = 0 THEN 0
    ELSE Places(ns, i - 1) + Len(ns[i].children) + Len(ns[i].attributes)

\* What the builder holds: the places in _nodes and in the nodes' lists,
\* and the entries of its import table.  An operation is explored while
\* they stay within the budget.
Held(ns, imps, fimps) == Len(root) + Places(ns, Len(ns)) + BagSize(imps) + BagSize(fimps)

CanCreate(k) == Held(nodes, imports, from_imports) + k <= budget

\* ClassContext / FunctionContext / ControlFlowContext.__enter__ for the
\* node n constructed by the block-opening operation: add the node, push the
\* context, increase the indentation; the caller's with-statement is open.
Enter_PushFirst(n) ==
    LET c == Context(ContextOf(n), Len(nodes) + 1)
        added == add_node(nodes, root, push_context(stack, c), n)
    IN /\ Running
       /\ CanCreate(1)
       /\ Len(frames) < MaxDepth
       /\ nodes' = added.nodes
       /\ root' = added.root
       /\ stack' = push_context(stack, c)
       /\ level' = increase(level)
       /\ frames' = Append(frames, [ctx |-> c, L |-> level, S |-> stack])
       /\ result' = ReturnNone
       /\ UNCHANGED <<exc, imports, from_imports, calls, secondVars, configVars>>

Enter(n) ==
    LET added == add_node(nodes, root, stack, n)
        c == Context(ContextOf(n), Len(nodes) + 1)
    IN /\ Running
       /\ CanCreate(1)
       /\ Len(frames) < MaxDepth
       /\ nodes' = added.nodes
       /\ root' = added.root
       /\ stack' = push_context(stack, c)
       /\ level' = increase(level)
       /\ frames' = Append(frames, [ctx |-> c, L |-> level, S |-> stack])
       /\ result' = ReturnNone
       /\ UNCHANGED <<exc, imports, from_imports, calls, secondVars, configVars>>

\* ClassContext / FunctionContext / ControlFlowContext.__enter__ on the
\* context object a block operation yielded (`with code.class_(...) as c`,
\* later `with c:`): the node the context holds is added again, the context
\* is pushed again, the indentation is increased.
ContextEnter(i) ==
    LET added == add_held_node(nodes, root, stack, i)
        c == Context(ContextOf(nodes[i]), i)
    IN /\ Running
       /\ IsBlock(nodes[i])
       /\ CanCreate(1)
       /\ Len(frames) < MaxDepth
       /\ nodes' = added.nodes
       /\ root' = added.root
       /\ stack' = push_context(stack, c)
       /\ level' = increase(level)
       /\ frames' = Append(frames, [ctx |-> c, L |-> level, S |-> stack])
       /\ result' = ReturnNone
       /\ UNCHANGED <<exc, imports, from_imports, calls, secondVars, configVars>>

\* CodeBuilder.class_ / function / method
Class_(name, bases, decorators) == Enter(ClassNode(name, bases, decorators, level))
Function(name, params, returns, decorators, async_) ==
    Enter(FunctionNode(name, params, returns, decorators, async_, level))
Method(name, params, returns, decorators, async_) ==
    Enter(MethodNode(name, params, returns, decorators, async_, level))

\* CodeBuilder.if_ ... with_
If_(condition) == Enter(IfNode(condition, level))
Elif_(condition) == Enter(ElifNode(condition, level))
Else_ == Enter(ElseNode(level))
For_(target, iterable) == Enter(ForNode(target, iterable, level))
While_(condition) == Enter(WhileNode(condition, level))
Try_ == Enter(TryNode(level))
Except_(exception, as_) == Enter(ExceptNode(exception, as_, level))
Finally_ == Enter(FinallyNode(level))
With_(expression, as_) == Enter(WithNode(expression, as_, level))

\* The contexts' __exit__: decrease the indentation, pop the context.
ContextExit ==
    /\ level' = decrease(level)
    /\ stack' = pop_context(stack)

\* The body of the innermost with-statement ends normally.
ExitBlock ==
    /\ Running
    /\ frames # <<>>
    /\ ContextExit
    /\ frames' = SubSeq(frames, 1, Len(frames) - 1)
    /\ result' = ReturnNone
    /\ UNCHANGED <<nodes, root, exc, imports, from_imports, calls, secondVars, configVars>>

\* The body of the innermost with-statement raises an exception of its own.
BodyRaises ==
    /\ Running
    /\ frames # <<>>
    /\ exc' = "Exception"
    /\ result' = ReturnNone
    /\ UNCHANGED <<nodes, root, stack, level, frames, imports, from_imports, calls,
                   secondVars, configVars>>

\* The exception leaves the innermost with-statement: __exit__ runs and
\* returns None, so the exception goes on.
Unwind_RollsBack ==
    /\ ~Running
    /\ frames # <<>>
    /\ ContextExit
    /\ IF frames[Len(frames)].S = <<>>
       THEN /\ root' = SubSeq(root, 1, Len(root) - 1)
            /\ UNCHANGED nodes
       ELSE /\ nodes' = [nodes EXCEPT ![current_context(frames[Len(frames)].S).node].children =
                                          SubSeq(@, 1, Len(@) - 1)]
            /\ UNCHANGED root
    /\ frames' = SubSeq(frames, 1, Len(frames) - 1)
    /\ UNCHANGED <<exc, result, imports, from_imports, calls, secondVars, configVars>>

Unwind ==
    /\ ~Running
    /\ frames # <<>>
    /\ ContextExit
    /\ frames' = SubSeq(frames, 1, Len(frames) - 1)
    /\ UNCHANGED <<nodes, root, exc, result, imports, from_imports, calls, secondVars, configVars>>

\* The caller catches the exception where it is.
Catch ==
    /\ ~Running
    /\ exc' = None
    /\ UNCHANGED <<nodes, root, stack, level, frames, result, imports, from_imports,
                   calls, secondVars, configVars>>

\* A leaf operation that constructs the node n and adds it.
AddLeaf(n) ==
    LET added == add_node(nodes, root, stack, n) IN
    /\ Running
    /\ CanCreate(1)
    /\ nodes' = added.nodes
    /\ root' = added.root
    /\ result' = ReturnNone
    /\ UNCHANGED <<stack, level, frames, exc, imports, from_imports, calls, secondVars, configVars>>

\* CodeBuilder.line / return_ / raw / comment / blank_line
Line(code) == AddLeaf(RawLineNode("line", code, level))
Return_(value) == AddLeaf(RawLineNode("return_", "return " \o value, level))
Raw(code) == AddLeaf(RawLineNode("raw", code, 0))
Comment(text) == AddLeaf(CommentNode(text, level))
BlankLine == AddLeaf(BlankLineNode)

\* CodeBuilder.blank_lines(n): n times blank_line()
RECURSIVE AddBlankLines(_, _, _, _)
AddBlankLines(ns, rt, st, n) ==
    IF n <= 0 THEN [nodes |-> ns, root |-> rt]
    ELSE LET added == add_node(ns, rt, st, BlankLineNode)
         IN AddBlankLines(added.nodes, added.root, st, n - 1)

BlankLines(n) ==
    LET added == AddBlankLines(nodes, root, stack, n) IN
    /\ Running
    /\ CanCreate(n)
    /\ nodes' = added.nodes
    /\ root' = added.root
    /\ result' = ReturnNone
    /\ UNCHANGED <<stack, level, frames, exc, imports, from_imports, calls, secondVars, configVars>>

\* CodeBuilder.docstring: ClassContext and FunctionContext have a docstring
\* method, which sets the docstring of their node.
Docstring_AnyContext(text) ==
    LET current == current_context(stack) IN
    /\ Running
    /\ IF stack # <<>>
       THEN /\ nodes' = [nodes EXCEPT ![current.node].docstring = text]
            /\ UNCHANGED root
       ELSE LET added == add_node(nodes, root, stack, DocstringNode(text, level)) IN
            /\ CanCreate(1)
            /\ nodes' = added.nodes
            /\ root' = added.root
    /\ result' = ReturnNone
    /\ UNCHANGED <<stack, level, frames, exc, imports, from_imports, calls, secondVars, configVars>>

Docstring(text) ==
    LET current == current_context(stack) IN
    /\ Running
    /\ IF stack # <<>> /\ current.ctx \in {"ClassContext", "FunctionContext"}
       THEN /\ nodes' = [nodes EXCEPT ![current.node].docstring = text]
            /\ UNCHANGED root
       ELSE LET added == add_node(nodes, root, stack, DocstringNode(text, level)) IN
            /\ CanCreate(1)
            /\ nodes' = added.nodes
            /\ root' = added.root
    /\ result' = ReturnNone
    /\ UNCHANGED <<stack, level, frames, exc, imports, from_imports, calls, secondVars, configVars>>

\* ClassNode.add_attribute: the AttributeNode is constructed one level
\* deeper than the class and appended to its attributes.
add_attribute(ns, p, name, type_hint, default) ==
    [Append(ns, AttributeNode(name, type_hint, default, ns[p].indent_level + 1))
        EXCEPT ![p].attributes = Append(@, Len(ns) + 1)]

\* CodeBuilder.attr: raises RuntimeError unless the current context is a
\* ClassContext.
IsClassContextAny(st) == st # <<>>

IsClassContext(st) == st # <<>> /\ st[Len(st)].ctx = "ClassContext"

Attr(name, type_, default) ==
    /\ Running
    /\ IF IsClassContext(stack)
       THEN /\ CanCreate(1)
            /\ nodes' = add_attribute(nodes, stack[Len(stack)].node, name, type_, default)
            /\ UNCHANGED exc
       ELSE /\ exc' = "RuntimeError"
            /\ UNCHANGED nodes
    /\ result' = ReturnNone
    /\ UNCHANGED <<root, stack, level, frames, imports, from_imports, calls, secondVars, configVars>>

\* ClassContext.attr on the context object class_() yielded, which holds
\* node i: the attribute is added to that class, whatever the stack is.
ContextAttr(i, name, type_, default) ==
    /\ Running
    /\ nodes[i].cls = "ClassNode"
    /\ CanCreate(1)
    /\ nodes' = add_attribute(nodes, i, name, type_, default)
    /\ result' = ReturnNone
    /\ UNCHANGED <<root, stack, level, frames, exc, imports, from_imports, calls, secondVars,
                   configVars>>

\* ClassContext.docstring / FunctionContext.docstring on the context object
\* class_(), function() or method() yielded, which holds node i.
ContextDocstring(i, text) ==
    /\ Running
    /\ nodes[i].cls \in {"ClassNode", "FunctionNode", "MethodNode"}
    /\ nodes' = [nodes EXCEPT ![i].docstring = text]
    /\ result' = ReturnNone
    /\ UNCHANGED <<root, stack, level, frames, exc, imports, from_imports, calls, secondVars,
                   configVars>>

\* Node.add_child on a node the caller reaches through the public attribute
\* node of a yielded context object and the children and attributes below
\* it: node c is appended to the children of node p, whatever the kinds of
\* the two nodes and whatever the stack is.
NodeAddChild(p, c) ==
    /\ Running
    /\ CanCreate(1)
    /\ nodes' = add_child(nodes, p, c)
    /\ result' = ReturnNone
    /\ UNCHANGED <<root, stack, level, frames, exc, imports, from_imports, calls, secondVars,
                   configVars>>

\* CodeBuilder.add_import(module, items): inside a context a code line,
\* otherwise the ImportManager.
BuilderAddImport_Dedup(module, items) ==
    /\ Running
    /\ IF stack # <<>>
       THEN LET code == IF items # None /\ items # <<>>
                        THEN "from " \o module \o " import " \o JoinComma(items)
                        ELSE "import " \o module
                line == RawLineNode("line", code, level)
                added == add_node(nodes, root, stack, line)
                kids == nodes[current_context(stack).node].children
            IN /\ IF \E i \in DOMAIN kids : nodes[kids[i]] = line
                  THEN UNCHANGED <<nodes, root>>
                  ELSE /\ CanCreate(1)
                       /\ nodes' = added.nodes
                       /\ root' = added.root
               /\ UNCHANGED <<imports, from_imports>>
       ELSE /\ IF items # None /\ items # <<>>
               THEN /\ from_imports' \in IM_add_from_import(from_imports, module, items)
                    /\ UNCHANGED imports
               ELSE /\ imports' = IM_add_import(imports, module, None)
                    /\ UNCHANGED from_imports
            /\ Held(nodes, imports', from_imports') <= budget
            /\ UNCHANGED <<nodes, root>>
    /\ result' = ReturnNone
    /\ UNCHANGED <<stack, level, frames, exc, calls, secondVars, configVars>>

BuilderAddImport(module, items) ==
    /\ Running
    /\ IF stack # <<>>
       THEN LET code == IF items # None /\ items # <<>>
                        THEN "from " \o module \o " import " \o JoinComma(items)
                        ELSE "import " \o module
                added == add_node(nodes, root, stack, RawLineNode("line", code, level))
            IN /\ CanCreate(1)
               /\ nodes' = added.nodes
               /\ root' = added.root
               /\ UNCHANGED <<imports, from_imports>>
       ELSE /\ IF items # None /\ items # <<>>
               THEN /\ from_imports' \in IM_add_from_import(from_imports, module, items)
                    /\ UNCHANGED imports
               ELSE /\ imports' = IM_add_import(imports, module, None)
                    /\ UNCHANGED from_imports
            /\ Held(nodes, imports', from_imports') <= budget
            /\ UNCHANGED <<nodes, root>>
    /\ result' = ReturnNone
    /\ UNCHANGED <<stack, level, frames, exc, calls, secondVars, configVars>>

\* CodeBuilder.add_from_import(module, items)
BuilderAddFromImport_Hoist(module, items) ==
    /\ Running
    /\ from_imports' \in IM_add_from_import(from_imports, module, items)
    /\ Held(nodes, imports, from_imports') <= budget
    /\ result' = ReturnNone
    /\ UNCHANGED <<nodes, root, imports, stack, level, frames, exc, calls, secondVars,
                   configVars>>

BuilderAddFromImport(module, items) ==
    /\ Running
    /\ IF stack # <<>>
       THEN LET code == "from " \o module \o " import " \o JoinComma(items)
                added == add_node(nodes, root, stack, RawLineNode("line", code, level))
            IN /\ CanCreate(1)
               /\ nodes' = added.nodes
               /\ root' = added.root
               /\ UNCHANGED <<imports, from_imports>>
       ELSE /\ from_imports' \in IM_add_from_import(from_imports, module, items)
            /\ Held(nodes, imports, from_imports') <= budget
            /\ UNCHANGED <<imports, nodes, root>>
    /\ result' = ReturnNone
    /\ UNCHANGED <<stack, level, frames, exc, calls, secondVars, configVars>>

\* ------------------------------------------------------------- rendering
\* A rendered string is kept as the list of its lines, str.split("\n"); the
\* empty string is the one empty line.
\* indent_char * n
RECURSIVE Repeat(_, _)
Repeat(ch, n) == IF n <= 0 THEN "" ELSE ch \o Repeat(ch, n - 1)

\* "\n".join(lines)
RECURSIVE JoinLines(_)
JoinLines(lines) ==
    IF lines = <<>> THEN ""
    ELSE IF Len(lines) = 1 THEN lines[1]
    ELSE lines[1] \o "\n" \o JoinLines(Tail(lines))

\* text.split("\n"), "\n" in text, text.strip() == "" and
\* name.startswith("@") for the strings the model uses.
SplitLines(text) ==
    IF text = "Line 1\nLine 2" THEN <<"Line 1", "Line 2">> ELSE <<text>>

IsBlank(code) == code \in {"", " ", "    "}

StartsWithAt(name) == name \in {"@dataclass", "@staticmethod", "@property"}

\* Python truthiness of an Optional[str]
Truthy(v) == v # None /\ v # ""

\* Node._get_indent, and the body indentation one level deeper
get_indent_IgnoringSize(n, indent_size, indent_char) == Repeat(indent_char, n.indent_level)

get_indent(n, indent_size, indent_char) == Repeat(indent_char, indent_size * n.indent_level)

body_indent_Flat(n, indent_size, indent_char) ==
    Repeat(indent_char, indent_size * n.indent_level)

body_indent(n, indent_size, indent_char) ==
    Repeat(indent_char, indent_size * (n.indent_level + 1))

\* DecoratorNode.render over render_decorators
render_decorators(decorators, indent_level, indent_size, indent_char) ==
    [i \in DOMAIN decorators |->
        Repeat(indent_char, indent_size * indent_level) \o
        (IF StartsWithAt(decorators[i]) THEN decorators[i] ELSE "@" \o decorators[i])]

\* format_bases / format_params / format_return_type
format_bases(bases) == IF bases # <<>> THEN "(" \o JoinComma(bases) \o ")" ELSE ""
format_params(params) == JoinComma(params)
format_return_type(return_type) == IF Truthy(return_type) THEN " -> " \o return_type ELSE ""

\* The docstring lines ClassNode.render and FunctionNode.render emit, and
\* DocstringNode.render.
docstring_lines(text, indent) ==
    IF Len(SplitLines(text)) = 1
    THEN <<indent \o "\"\"\"" \o text \o "\"\"\"">>
    ELSE <<indent \o "\"\"\"">> \o
         [i \in DOMAIN SplitLines(text) |-> indent \o SplitLines(text)[i]] \o
         <<indent \o "\"\"\"">>

\* The header line of a control-flow node.
header(n, indent) ==
    CASE n.cls = "IfNode" -> indent \o "if " \o n.args.condition \o ":"
      [] n.cls = "ElifNode" -> indent \o "elif " \o n.args.condition \o ":"
      [] n.cls = "ElseNode" -> indent \o "else:"
      [] n.cls = "ForNode" -> indent \o "for " \o n.args.target \o " in " \o n.args.iterable \o ":"
      [] n.cls = "WhileNode" -> indent \o "while " \o n.args.condition \o ":"
      [] n.cls = "TryNode" -> indent \o "try:"
      [] n.cls = "ExceptNode" ->
            indent \o "except" \o
            (IF Truthy(n.args.exception)
             THEN " " \o n.args.exception \o
                  (IF Truthy(n.args.as_) THEN " as " \o n.args.as_ ELSE "")
             ELSE "") \o ":"
      [] n.cls = "FinallyNode" -> indent \o "finally:"
      [] n.cls = "WithNode" ->
            indent \o "with " \o n.args.expression \o
            (IF Truthy(n.args.as_) THEN " as " \o n.args.as_ ELSE "") \o ":"

\* ClassNode.render: "If class is empty, add pass".
class_is_empty_IgnoringDocstring(n) == n.attributes = <<>> /\ n.children = <<>>

class_is_empty(n) == ~Truthy(n.docstring) /\ n.attributes = <<>> /\ n.children = <<>>

\* ClassNode.render: the docstring lines, then the attributes' lines, then
\* the children's lines.
class_body_ChildrenFirst(docstring, attributes, children) ==
    docstring \o children \o attributes

class_body(docstring, attributes, children) == docstring \o attributes \o children

\* Node.render of node id of ns; render_children renders the nodes of ids in
\* order, keeping a child's rendering unless keep_empty is FALSE and it is
\* the empty string (FunctionNode.render tests "if rendered").
RECURSIVE render(_, _, _, _), render_children(_, _, _, _, _)
render(ns, id, indent_size, indent_char) ==
    LET n == ns[id]
        indent == get_indent(n, indent_size, indent_char)
        body == body_indent(n, indent_size, indent_char)
    IN CASE n.cls = "RawLineNode" ->
               IF IsBlank(n.args.code) THEN <<"">> ELSE <<indent \o n.args.code>>
         [] n.cls = "BlankLineNode" -> <<"">>
         [] n.cls = "CommentNode" -> <<indent \o "# " \o n.args.text>>
         [] n.cls = "DocstringNode" -> docstring_lines(n.args.text, indent)
         [] n.cls = "AttributeNode" ->
               IF Truthy(n.args.default)
               THEN <<indent \o n.args.name \o ": " \o n.args.type_hint \o " = " \o
                      n.args.default>>
               ELSE <<indent \o n.args.name \o ": " \o n.args.type_hint>>
         [] n.cls = "ClassNode" ->
               render_decorators(n.args.decorators, n.indent_level, indent_size, indent_char) \o
               <<indent \o "class " \o n.args.name \o format_bases(n.args.bases) \o ":">> \o
               class_body(
                   IF Truthy(n.docstring) THEN docstring_lines(n.docstring, body) ELSE <<>>,
                   render_children(ns, n.attributes, indent_size, indent_char, TRUE),
                   render_children(ns, n.children, indent_size, indent_char, TRUE)) \o
               (IF class_is_empty(n) THEN <<body \o "pass">> ELSE <<>>)
         [] n.cls \in {"FunctionNode", "MethodNode"} ->
               render_decorators(n.args.decorators, n.indent_level, indent_size, indent_char) \o
               <<indent \o (IF n.args.async_ THEN "async " ELSE "") \o "def " \o n.args.name \o
                 "(" \o format_params(n.args.params) \o ")" \o
                 format_return_type(n.args.returns) \o ":">> \o
               (IF Truthy(n.docstring) THEN docstring_lines(n.docstring, body) ELSE <<>>) \o
               render_children(ns, n.children, indent_size, indent_char, FALSE) \o
               (IF ~Truthy(n.docstring) /\ n.children = <<>>
                THEN <<body \o "pass">> ELSE <<>>)
         [] OTHER ->
               <<header(n, indent)>> \o
               render_children(ns, n.children, indent_size, indent_char, TRUE) \o
               (IF n.children = <<>> THEN <<body \o "pass">> ELSE <<>>)

render_children(ns, ids, indent_size, indent_char, keep_empty) ==
    IF ids = <<>> THEN <<>>
    ELSE LET rendered == render(ns, Head(ids), indent_size, indent_char) IN
         (IF keep_empty \/ rendered # <<"">> THEN rendered ELSE <<>>) \o
         render_children(ns, Tail(ids), indent_size, indent_char, keep_empty)

\* The nodes whose render is called by the render of the nodes ids: the
\* children of the blocks among them (a leaf's render does not look at its
\* children), the children of those, and so on for fuel levels.
RECURSIVE Below(_, _, _)
Below(ns, ids, fuel) ==
    IF fuel = 0 THEN ids
    ELSE Below(ns,
               ids \cup UNION {Range(ns[id].children) : id \in {i \in ids : IsBlock(ns[i])}},
               fuel - 1)

\* A block that is below itself: its render calls itself without end, and
\* Python raises RecursionError.
RendersItself(ns) ==
    \E id \in DOMAIN ns :
        IsBlock(ns[id]) /\ id \in Below(ns, Range(ns[id].children), Len(ns))

\* What generate returns: the string, with the lines it joined.
ReturnStr(lines) == [kind |-> "str", value |-> JoinLines(lines), lines |-> lines]

\* CodeBuilder.generate(format=False): the possible lists of lines.
generate_AlwaysSeparator(ns, rt, imps, fimps) ==
    {RenderAll(import_nodes) \o
     (IF import_nodes # <<>> THEN <<"", "">> ELSE <<>>) \o
     render_children(ns, rt, _indent_size, _indent_char, TRUE) :
        import_nodes \in IM_get_import_nodes(imps, fimps)}

generate(ns, rt, imps, fimps) ==
    {RenderAll(import_nodes) \o
     (IF import_nodes # <<>> /\ rt # <<>> THEN <<"", "">> ELSE <<>>) \o
     render_children(ns, rt, _indent_size, _indent_char, TRUE) :
        import_nodes \in IM_get_import_nodes(imps, fimps)}

Generate_ClearsImports ==
    /\ Running
    /\ IF RendersItself(nodes)
       THEN /\ exc' = "RecursionError"
            /\ result' = ReturnNone
       ELSE /\ result' \in {ReturnStr(lines) :
                               lines \in generate(nodes, root, imports, from_imports)}
            /\ UNCHANGED exc
    /\ imports' = EmptyBag
    /\ from_imports' = EmptyBag
    /\ UNCHANGED <<nodes, root, stack, level, frames, calls, secondVars, configVars>>

\* generate() raises RecursionError from the render of a node that is below
\* itself.
Generate ==
    /\ Running
    /\ IF RendersItself(nodes)
       THEN /\ exc' = "RecursionError"
            /\ result' = ReturnNone
       ELSE /\ result' \in {ReturnStr(lines) :
                               lines \in generate(nodes, root, imports, from_imports)}
            /\ UNCHANGED exc
    /\ UNCHANGED <<nodes, root, stack, level, frames, imports, from_imports, calls,
                   secondVars, configVars>>

Next ==
    \/ Class_("MyClass", None, None)
    \/ Function("my_func", <<"x: int">>, "int", None, FALSE)
    \/ Method("my_method", None, "str", None, FALSE)
    \/ If_("x > 0")
    \/ Elif_("x < 0")
    \/ Else_
    \/ For_("item", "items")
    \/ While_("True")
    \/ Try_
    \/ Except_("ValueError", "e")
    \/ Finally_
    \/ With_("open(f)", "fh")
    \/ ExitBlock
    \/ BodyRaises
    \/ Unwind
    \/ Catch
    \/ Line("x = 1")
    \/ Return_("x")
    \/ Raw("y = 2")
    \/ Comment("note")
    \/ BlankLine
    \/ BlankLines(2)
    \/ Docstring("Doc.")
    \/ Attr("field", "str", None)
    \/ \E i \in DOMAIN nodes : ContextEnter(i)
    \/ \E p \in DOMAIN nodes, c \in DOMAIN nodes : NodeAddChild(p, c)
    \/ \E i \in DOMAIN nodes : ContextAttr(i, "field", "str", None)
    \/ \E i \in DOMAIN nodes : ContextDocstring(i, "Doc.")
    \/ BuilderAddImport("os", None)
    \/ BuilderAddImport("sys", None)
    \/ BuilderAddImport("typing", <<"List", "Dict">>)
    \/ BuilderAddFromImport("typing", <<"List", "Dict">>)
    \/ Generate

Spec == Init /\ [][Next]_vars

\* ===================================================== claims: the builder
Top(s) == s[Len(s)]

\* C1: when an exception leaves a with-statement of any block-opening
\* operation, entered at indentation level L with context stack S, the
\* indentation level is L again and the context stack is S again.
C1_ExceptionRestoresNesting ==
    [][(exc # None /\ frames # <<>> /\ frames' = SubSeq(frames, 1, Len(frames) - 1)) =>
          (level' = Top(frames).L /\ stack' = Top(frames).S)]_vars

C1_Witness ==
    /\ exc = "Exception"
    /\ Len(nodes) = 2
    /\ IsBlock(nodes[1])
    /\ nodes[1].children = <<2>>
    /\ IsBlock(nodes[2])
    /\ Len(frames) = 1
    /\ Len(stack) = 1
    /\ level = 1

\* C2: in every reachable state the indentation level equals the number of
\* contexts on the context stack.
C2_LevelIsStackDepth == level = Len(stack)

C2_Witness ==
    /\ Len(nodes) = 2
    /\ root = <<1>>
    /\ nodes[1].children = <<2>>
    /\ Len(stack) = 2
    /\ stack[2].node = 2
    /\ level = 2
    /\ result.kind = "str"

\* C3: the builder's attr() succeeds only when the current context is a
\* ClassContext; called with an empty stack or with a function, method or
\* control-flow context on top it raises, and the nodes, the root sequence,
\* the context stack, the indentation level and the imports are as before
\* the call.
C3_AttrOutsideClassFails ==
    [][/\ (Attr("field", "str", None) /\ (stack = <<>> \/ Top(stack).ctx # "ClassContext")) =>
             /\ exc' = "RuntimeError"
             /\ UNCHANGED <<nodes, root, stack, level, frames, imports, from_imports>>
       /\ (exc = None /\ exc' = "RuntimeError") =>
             /\ (stack = <<>> \/ Top(stack).ctx # "ClassContext")
             /\ UNCHANGED <<nodes, root, stack, level, frames, imports, from_imports>>]_vars

C3_Witness ==
    /\ exc = "RuntimeError"
    /\ Len(stack) = 2
    /\ stack[1].ctx = "ClassContext"
    /\ stack[2].ctx = "FunctionContext"
    /\ nodes[1].attributes = <<>>

\* ------------------------------ a session of builder operations only
\* Operations of the CodeBuilder itself: blocks opened and closed by their
\* own with-statements, attributes and leaves, within
\* MaxBuilderNodes objects.
InitBuilder ==
    /\ Construct(IndentSize, IndentChar, MaxBuilderNodes)
    /\ nodes = <<>>
    /\ root = <<>>
    /\ stack = <<>>
    /\ level = 0
    /\ frames = <<>>
    /\ exc = None
    /\ ManagerInit
    /\ SecondInit

NextBuilder ==
    \/ Class_("MyClass", None, None)
    \/ Method("my_method", None, "str", None, FALSE)
    \/ If_("x > 0")
    \/ Attr("field", "str", None)
    \/ Line("x = 1")
    \/ Raw("y = 2")
    \/ Comment("note")
    \/ BlankLine
    \/ ExitBlock

SpecBuilder == InitBuilder /\ [][NextBuilder]_vars

\* C4: after any sequence of builder operations the nodes form a forest:
\* every node occurs exactly once among the root sequence and the children
\* and attribute sequences of all nodes, and no node is its own descendant.
Kids(id) == Range(nodes[id].children) \cup Range(nodes[id].attributes)

\* The root sequence followed by the children and attributes of nodes 1..i.
RECURSIVE Owned(_)
Owned(i) ==
    IF i = 0 THEN root ELSE Owned(i - 1) \o nodes[i].children \o nodes[i].attributes

RECURSIVE Descendants(_, _)
Descendants(ids, fuel) ==
    IF fuel = 0 THEN ids
    ELSE Descendants(ids \cup UNION {Kids(id) : id \in ids}, fuel - 1)

C4_NodesFormForest ==
    /\ Len(Owned(Len(nodes))) = Len(nodes)
    /\ Range(Owned(Len(nodes))) = DOMAIN nodes
    /\ \A id \in DOMAIN nodes : id \notin Descendants(Kids(id), Len(nodes))

C4_Witness ==
    /\ Len(nodes) = 4
    /\ root = <<1, 4>>
    /\ nodes[1].cls = "ClassNode"
    /\ nodes[1].attributes = <<2>>
    /\ nodes[1].children = <<3>>
    /\ nodes[3].cls = "MethodNode"
    /\ stack = <<>>

\* C5 as claimed: every node in the root sequence has indent_level 0 and
\* every other node has its parent's indent_level + 1.
IndentFollowsParent(id) ==
    /\ id \in Range(root) => nodes[id].indent_level = 0
    /\ \A p \in DOMAIN nodes :
          id \in Kids(p) => nodes[id].indent_level = nodes[p].indent_level + 1

C5_Original_IndentFollowsParent == \A id \in DOMAIN nodes : IndentFollowsParent(id)

\* C5 amended: that holds of every node a builder operation inserts except
\* those of raw() and blank_line(), whose indent_level is 0 wherever they
\* are inserted.
C5_IndentFollowsParentExceptRawBlank ==
    \A id \in DOMAIN nodes :
        IF nodes[id].op \in {"raw", "blank_line"}
        THEN nodes[id].indent_level = 0
        ELSE IndentFollowsParent(id)

C5_Witness ==
    /\ Len(nodes) = 4
    /\ nodes[1].cls = "ClassNode"
    /\ nodes[2].op = "method"
    /\ nodes[3].op = "if_"
    /\ nodes[1].children = <<2>>
    /\ nodes[2].children = <<3>>
    /\ nodes[3].children = <<4>>
    /\ nodes[2].indent_level = 1
    /\ nodes[3].indent_level = 2
    /\ nodes[4].op = "line"
    /\ nodes[4].indent_level = 3

\* ------------------------------------------- the ImportManager on its own
\* ImportManager.add_import(module, alias)
AddImport(module, alias) ==
    /\ Len(calls) < MaxCalls
    /\ imports' = IM_add_import(imports, module, alias)
    /\ calls' = Append(calls, AddImportCall(module, alias))
    /\ result' = ReturnNone
    /\ UNCHANGED <<from_imports, builderVars, secondVars, configVars>>

\* ImportManager.add_from_import(module, items)
AddFromImport(module, items) ==
    /\ Len(calls) < MaxCalls
    /\ from_imports' \in IM_add_from_import(from_imports, module, items)
    /\ calls' = Append(calls, AddFromImportCall(module, items))
    /\ result' = ReturnNone
    /\ UNCHANGED <<imports, builderVars, secondVars, configVars>>

\* ImportManager.get_import_nodes()
GetImportNodes ==
    /\ result' \in {ReturnList(r) : r \in IM_get_import_nodes(imports, from_imports)}
    /\ UNCHANGED <<imports, from_imports, calls, builderVars, secondVars, configVars>>

\* ImportManager.clear()
Clear ==
    /\ imports' = EmptyBag
    /\ from_imports' = EmptyBag
    /\ calls' = <<>>
    /\ result' = ReturnNone
    /\ UNCHANGED <<builderVars, secondVars, configVars>>

NextImports ==
    \/ \E m \in Modules, a \in Aliases : AddImport(m, a)
    \/ \E m \in Modules, xs \in ItemLists : AddFromImport(m, xs)
    \/ GetImportNodes
    \/ Clear

SpecImports == Init /\ [][NextImports]_vars

\* --------------------- two ImportManagers given the same calls, reordered
\* The same call with its items given in another order.
Reorderings(c) ==
    IF c.op = "add_import" THEN {c}
    ELSE {AddFromImportCall(c.module, xs) :
             xs \in {p \in [1..Len(c.arg) -> Range(c.arg)] :
                        \A e \in Range(c.arg) :
                            Cardinality({i \in 1..Len(c.arg) : p[i] = e}) =
                            Cardinality({i \in 1..Len(c.arg) : c.arg[i] = e})}}

FirstCall(c) ==
    /\ Len(calls) < MaxPermCalls
    /\ IF c.op = "add_import"
       THEN /\ imports' = IM_add_import(imports, c.module, c.arg)
            /\ UNCHANGED from_imports
       ELSE /\ from_imports' \in IM_add_from_import(from_imports, c.module, c.arg)
            /\ UNCHANGED imports
    /\ calls' = Append(calls, c)
    /\ pending' = pending (+) SetToBag({c})
    /\ result' = ReturnNone
    /\ result2' = ReturnNone
    /\ UNCHANGED <<imports2, from_imports2, builderVars, configVars>>

SecondCall(c, d) ==
    /\ BagIn(c, pending)
    /\ d \in Reorderings(c)
    /\ IF d.op = "add_import"
       THEN /\ imports2' = IM_add_import(imports2, d.module, d.arg)
            /\ UNCHANGED from_imports2
       ELSE /\ from_imports2' \in IM_add_from_import(from_imports2, d.module, d.arg)
            /\ UNCHANGED imports2
    /\ pending' = pending (-) SetToBag({c})
    /\ result' = ReturnNone
    /\ result2' = ReturnNone
    /\ UNCHANGED <<imports, from_imports, calls, builderVars, configVars>>

BothEmit ==
    /\ pending = EmptyBag
    /\ calls # <<>>
    /\ result' \in {ReturnList(r) : r \in IM_get_import_nodes(imports, from_imports)}
    /\ result2' \in {ReturnList(r) : r \in IM_get_import_nodes(imports2, from_imports2)}
    /\ UNCHANGED <<imports, from_imports, calls, imports2, from_imports2, pending,
                   builderVars, configVars>>

AllCalls ==
    {AddImportCall(m, a) : m \in Modules, a \in Aliases} \cup
    {AddFromImportCall(m, xs) : m \in Modules, xs \in ItemLists}

NextPerm ==
    \/ \E c \in AllCalls : FirstCall(c)
    \/ \E c \in AllCalls, d \in AllCalls : SecondCall(c, d)
    \/ BothEmit

SpecPerm == Init /\ [][NextPerm]_vars

\* ================================================ claims: the Import Table
IsList(r) == r.kind = "list"

PlainCalls == {i \in DOMAIN calls : calls[i].op = "add_import"}
FromCallsOf(m) == {i \in DOMAIN calls : calls[i].op = "add_from_import" /\ calls[i].module = m}

\* The positions of a returned list that hold the plain import (m, a) / a
\* from-import of module m.
PlainAt(r, m, a) ==
    {i \in DOMAIN r : r[i].cls = "ImportNode" /\ r[i].module = m /\ r[i].alias = a}
FromAt(r, m) == {i \in DOMAIN r : r[i].cls = "FromImportNode" /\ r[i].module = m}

NoDuplicates(xs) == \A i, j \in DOMAIN xs : xs[i] = xs[j] => i = j

\* C6: after any add_import / add_from_import / clear calls, _imports holds at
\* most one entry per (module, alias) and _from_imports at most one entry per
\* module; a (module, alias) pair added (once or twice) is emitted by
\* get_import_nodes exactly once.
C6_NoDuplicateImports ==
    /\ \A m \in Modules, a \in Aliases :
          BagCardinality([e \in {x \in BagToSet(imports) : x.module = m /\ x.alias = a}
                            |-> CopiesIn(e, imports)]) <= 1
    /\ \A m \in Modules :
          BagCardinality([e \in {x \in BagToSet(from_imports) : x.module = m}
                            |-> CopiesIn(e, from_imports)]) <= 1
    /\ IsList(result) =>
          /\ \A i \in PlainCalls :
                Cardinality(PlainAt(result.value, calls[i].module, calls[i].arg)) = 1
          /\ \A m \in Modules : Cardinality(FromAt(result.value, m)) <= 1

C6_Witness ==
    /\ IsList(result)
    /\ \E i, j \in PlainCalls : i < j /\ calls[i] = calls[j]
    /\ Len(result.value) = 1

\* C7: when two (or more) item lists were added as from-imports of a module,
\* the one emitted from-import of that module lists exactly the union of
\* the lists, each name once.
C7_MergedItemsAreUnion ==
    IsList(result) =>
        \A m \in Modules :
            Cardinality(FromCallsOf(m)) >= 2 =>
                /\ Cardinality(FromAt(result.value, m)) = 1
                /\ \A i \in FromAt(result.value, m) :
                      /\ NoDuplicates(result.value[i].items)
                      /\ Range(result.value[i].items) =
                            UNION {Range(calls[k].arg) : k \in FromCallsOf(m)}
                      /\ RenderImport(result.value[i]) \in
                            {"from " \o m \o " import " \o JoinComma(xs) :
                                xs \in ListOfSet(result.value[i].items)}

C7_Witness ==
    /\ IsList(result)
    /\ \E m \in Modules : \E i, j \in FromCallsOf(m) :
          /\ i < j
          /\ calls[i].arg = <<"List", "Dict">>
          /\ calls[j].arg = <<"Dict">>
    /\ \E m \in Modules : \E i, j \in FromCallsOf(m) :
          i < j /\ Range(calls[i].arg) \cap Range(calls[j].arg) = {}

\* C9: get_import_nodes returns every plain import before every from-import,
\* and each of the two groups in non-decreasing order of module name.
C9_EmissionSorted ==
    IsList(result) =>
        \A i, j \in DOMAIN result.value :
            i < j =>
                /\ result.value[i].cls = "FromImportNode" => result.value[j].cls = "FromImportNode"
                /\ result.value[i].cls = result.value[j].cls =>
                      ~StrLess(result.value[j].module, result.value[i].module)

C9_Witness ==
    /\ IsList(result)
    /\ Len(result.value) = 3
    /\ calls[1].op = "add_from_import"
    /\ calls[2].op = "add_import"
    /\ calls[3].op = "add_import"
    /\ StrLess(calls[3].module, calls[2].module)

\* C10 as claimed: every emitted from-import line lists its items in
\* lexicographic order, and os, sys, typing:[List, Dict] emit
\* "from typing import Dict, List".
SortedItems(xs) == \A i, j \in DOMAIN xs : i < j => ~StrLess(xs[j], xs[i])

ScenarioCalls ==
    {AddImportCall("os", None), AddImportCall("sys", None),
     AddFromImportCall("typing", <<"List", "Dict">>)}

C10_Original_ItemsSorted ==
    IsList(result) =>
        /\ \A i \in DOMAIN result.value :
              result.value[i].cls = "FromImportNode" => SortedItems(result.value[i].items)
        /\ (Len(calls) = 3 /\ Range(calls) = ScenarioCalls) =>
              RenderAll(result.value) =
                  <<"import os", "import sys", "from typing import Dict, List">>

\* C10 amended: a from-import entry that came from a single add_from_import
\* call is emitted with its items in the order the caller gave them; the
\* scenario emits "from typing import List, Dict".
C10_ItemsInCallerOrder ==
    IsList(result) =>
        /\ \A m \in Modules : \A k \in FromCallsOf(m) :
              FromCallsOf(m) = {k} =>
                 \A i \in FromAt(result.value, m) :
                     RenderAll(result.value)[i] =
                         "from " \o m \o " import " \o JoinComma(calls[k].arg)
        /\ (Len(calls) = 3 /\ Range(calls) = ScenarioCalls) =>
              RenderAll(result.value) =
                  <<"import os", "import sys", "from typing import List, Dict">>

C10_Witness ==
    /\ IsList(result)
    /\ Len(calls) = 3
    /\ Range(calls) = ScenarioCalls
    /\ calls[1].op = "add_from_import"

\* C8 as claimed: two managers given the same calls in different orders (and
\* the same items in a different order) return the same rendered lines.
C8_Original_SameLines ==
    (IsList(result) /\ IsList(result2)) =>
        RenderAll(result.value) = RenderAll(result2.value)

\* C8 amended: they return the same sequence of statement kinds and module
\* names, the same plain-import lines equally often, and for each from-import
\* the same set of items; the order of the items within a from-import line
\* and of plain imports sharing a module may differ.
LineCount(r, line) == Cardinality({i \in DOMAIN r : RenderImport(r[i]) = line})

C8_SameUpToItemOrder ==
    (IsList(result) /\ IsList(result2)) =>
        /\ Len(result.value) = Len(result2.value)
        /\ \A i \in DOMAIN result.value :
              /\ result.value[i].cls = result2.value[i].cls
              /\ result.value[i].module = result2.value[i].module
              /\ result.value[i].cls = "FromImportNode" =>
                    Range(result.value[i].items) = Range(result2.value[i].items)
              /\ result.value[i].cls = "ImportNode" =>
                    LineCount(result.value, RenderImport(result.value[i])) =
                    LineCount(result2.value, RenderImport(result.value[i]))

C8_Witness ==
    /\ IsList(result)
    /\ IsList(result2)
    /\ Len(calls) = 2
    /\ Len(result.value) = 2
    /\ RenderAll(result.value) # RenderAll(result2.value)

\* ================================================= claims: generate()
\* C11: a from-import registered at root level by a single
\* add_from_import(module, items) call is emitted by generate() with its
\* items in the caller's order: right after the call that registers
\* typing's first entry, every text generate() can return has the line
\* `from typing import List, Dict`, and `import os` when os is registered.
C11_SingleCallKeepsItemOrder ==
    [][(from_imports = EmptyBag /\ from_imports' # EmptyBag /\ ~RendersItself(nodes')) =>
          \A lines \in generate(nodes', root', imports', from_imports') :
             /\ "from typing import List, Dict" \in Range(lines)
             /\ (ImportNode("os", None) \in BagToSet(imports') =>
                    "import os" \in Range(lines))]_vars

C11_Witness ==
    /\ BagToSet(imports) = {ImportNode("os", None)}
    /\ BagToSet(from_imports) = {FromImportNode("typing", <<"List", "Dict">>)}
    /\ result.kind = "str"
    /\ result.value = "import os\nfrom typing import List, Dict"

\* C12: add_import / add_from_import route by the context stack at call
\* time.  A step that changes the import table is taken with an empty stack
\* and leaves the root sequence and every node unchanged; a step that
\* constructs a raw import-statement line is taken with a non-empty stack,
\* leaves the import table and the root sequence unchanged, gives the line
\* the current indentation level and appends it as the last child of the
\* innermost context's node, every other node staying as it was.
ImportCodes == {"import os", "from typing import List, Dict"}

C12_ImportsRouteByStack ==
    [][/\ (imports' # imports \/ from_imports' # from_imports) =>
             (stack = <<>> /\ nodes' = nodes /\ root' = root)
       /\ (/\ Len(nodes') = Len(nodes) + 1
           /\ Top(nodes').cls = "RawLineNode"
           /\ Top(nodes').args.code \in ImportCodes) =>
             /\ stack # <<>>
             /\ imports' = imports
             /\ from_imports' = from_imports
             /\ root' = root
             /\ Top(nodes').indent_level = level
             /\ Top(nodes').children = <<>>
             /\ \A i \in DOMAIN nodes :
                   nodes'[i] = IF i = Top(stack).node
                               THEN [nodes[i] EXCEPT !.children =
                                        nodes[i].children \o <<Len(nodes')>>]
                               ELSE nodes[i]]_vars

C12_Witness ==
    /\ Len(nodes) = 2
    /\ IsBlock(nodes[1])
    /\ nodes[1].children = <<2>>
    /\ nodes[2].cls = "RawLineNode"
    /\ nodes[2].args.code = "from typing import List, Dict"
    /\ nodes[2].indent_level = 1
    /\ root = <<1>>
    /\ imports = EmptyBag
    /\ from_imports = EmptyBag

\* C13: the text generate() returns is, in this order, the rendered import
\* table entries, then two empty lines exactly when both the import table
\* and the root sequence are non-empty, then the rendered root nodes in
\* insertion order, all joined by single newlines.
RECURSIVE Concat(_)
Concat(ss) == IF ss = <<>> THEN <<>> ELSE Head(ss) \o Concat(Tail(ss))

RootLines == Concat([i \in DOMAIN root |-> render(nodes, root[i], _indent_size, _indent_char)])

ImportEntries == BagToSet(imports) \cup BagToSet(from_imports)

C13_GenerateLayout ==
    result.kind = "str" =>
        LET k == BagSize(imports) + BagSize(from_imports)
            sep == IF k > 0 /\ root # <<>> THEN 2 ELSE 0
            lines == result.lines
        IN /\ Len(lines) = k + sep + Len(RootLines)
           /\ {lines[i] : i \in 1..k} = {RenderImport(e) : e \in ImportEntries}
           /\ \A i \in 1..sep : lines[k + i] = ""
           /\ SubSeq(lines, k + sep + 1, Len(lines)) = RootLines
           /\ result.value = JoinLines(lines)

C13_Witness ==
    /\ BagToSet(imports) = {ImportNode("os", None)}
    /\ Len(nodes) = 1
    /\ root = <<1>>
    /\ result.kind = "str"
    /\ result.value = "import os\n\n\nx = 1"

\* C14: two generate() calls with no builder operation in between return
\* the same text: a step from a state where generate() has just returned to
\* a state where generate() has just returned leaves the returned text as
\* it was.
C14_GenerateTwiceSameText ==
    [][(result.kind = "str" /\ result'.kind = "str") => result'.value = result.value]_vars

C14_Witness ==
    /\ BagToSet(imports) = {ImportNode("os", None), ImportNode("sys", None)}
    /\ result.kind = "str"
    /\ result.value = "import os\nimport sys"

\* C15: generate() leaves the builder as it was: a step after which
\* generate() has just returned changes neither the root sequence, nor any
\* node (children, attributes, docstring, indent_level), nor the context
\* stack, nor the indentation level, nor the import table, nor the
\* formatting parameters.
C15_GenerateChangesNothing ==
    [][result'.kind = "str" =>
          UNCHANGED <<nodes, root, stack, level, frames, imports, from_imports,
                      _indent_size, _indent_char>>]_vars

C15_Witness ==
    /\ Len(nodes) = 1
    /\ nodes[1].cls = "ClassNode"
    /\ Len(stack) = 1
    /\ level = 1
    /\ BagToSet(imports) = {ImportNode("os", None)}
    /\ result.kind = "str"
    /\ result.value = "import os\n\n\nclass MyClass:\n    pass"

\* C16: every header-plus-body block renders with a body: after its
\* decorator lines and its header line there is at least one non-empty line.
HeaderLen(n) ==
    IF n.cls \in {"ClassNode", "FunctionNode", "MethodNode"}
    THEN Len(n.args.decorators) + 1
    ELSE 1

C16_BlockBodyNeverEmpty ==
    \A id \in DOMAIN nodes :
        (IsBlock(nodes[id]) /\ ~RendersItself(nodes)) =>
            LET r == render(nodes, id, _indent_size, _indent_char) IN
            \E i \in (HeaderLen(nodes[id]) + 1)..Len(r) : r[i] # ""

\* C17: whenever generate() has returned, a control-flow block opened at
\* indentation level L with no body operation renders as exactly two
\* lines, its header at L levels of indentation and `pass` at L + 1 levels;
\* a control-flow block with at least one child renders its header and its
\* children, and no placeholder.
IsControlFlow(n) ==
    n.op \in {"if_", "elif_", "else_", "for_", "while_", "try_", "except_", "finally_", "with_"}

\* The header each control-flow operation of Next is to produce.
HeaderText(n) ==
    CASE n.op = "if_" -> "if x > 0:"
      [] n.op = "elif_" -> "elif x < 0:"
      [] n.op = "else_" -> "else:"
      [] n.op = "for_" -> "for item in items:"
      [] n.op = "while_" -> "while True:"
      [] n.op = "try_" -> "try:"
      [] n.op = "except_" -> "except ValueError as e:"
      [] n.op = "finally_" -> "finally:"
      [] n.op = "with_" -> "with open(f) as fh:"

\* The indentation level the block operation of node id opened it at.
OpenedAt(id) == nodes[id].indent_level

Pad(k) == Repeat(_indent_char, _indent_size * k)

ChildLines(id) ==
    Concat([i \in DOMAIN nodes[id].children |->
               render(nodes, nodes[id].children[i], _indent_size, _indent_char)])

C17_EmptyControlFlowRendersPass ==
    \A id \in DOMAIN nodes :
        (result.kind = "str" /\ IsControlFlow(nodes[id])) =>
            LET r == render(nodes, id, _indent_size, _indent_char)
                L == OpenedAt(id)
            IN IF nodes[id].children = <<>>
               THEN r = <<Pad(L) \o HeaderText(nodes[id]), Pad(L + 1) \o "pass">>
               ELSE r = <<Pad(L) \o HeaderText(nodes[id])>> \o ChildLines(id)

C17_Witness ==
    /\ Len(nodes) = 2
    /\ root = <<1>>
    /\ nodes[1].children = <<2>>
    /\ nodes[2].children = <<>>
    /\ stack = <<>>
    /\ result.kind = "str"
    /\ result.value = "if x > 0:\n    except ValueError as e:\n        pass"

\* C18: whenever generate() has returned, a class renders the `pass`
\* placeholder exactly when it has no docstring, no attributes and no
\* children: an empty class renders as its header and `pass`, and any other
\* class renders no line beyond its header, its docstring, its attributes
\* and its children.  A class whose only content is a docstring renders as its
\* header and the docstring, and a class whose only content is one
\* attribute renders as its header and the attribute line one level deeper.
C18_ClassPassIffEmpty ==
    \A id \in DOMAIN nodes :
        (result.kind = "str" /\ nodes[id].cls = "ClassNode") =>
            LET n == nodes[id]
                r == render(nodes, id, _indent_size, _indent_char)
                L == OpenedAt(id)
                hdr == Pad(L) \o "class MyClass:"
                empty == n.docstring = None /\ n.attributes = <<>> /\ n.children = <<>>
                own == Len(r) - 1 - (IF n.docstring = None THEN 0 ELSE 1)
                          - Len(n.attributes) - Len(ChildLines(id))
            IN /\ IF empty THEN r = <<hdr, Pad(L + 1) \o "pass">> ELSE own = 0
               /\ (n.docstring # None /\ n.attributes = <<>> /\ n.children = <<>>) =>
                     r = <<hdr, Pad(L + 1) \o "\"\"\"Doc.\"\"\"">>
               /\ (n.docstring = None /\ Len(n.attributes) = 1 /\ n.children = <<>>) =>
                     r = <<hdr, Pad(L + 1) \o "field: str">>

C18_Witness ==
    /\ Len(nodes) = 2
    /\ nodes[1].cls = "ClassNode"
    /\ nodes[1].attributes = <<2>>
    /\ nodes[1].children = <<>>
    /\ nodes[1].docstring = None
    /\ result.kind = "str"
    /\ result.value = "class MyClass:\n    field: str"

\* ------------------------------------ a builder with configured indentation
\* CodeBuilder(indent_size, indent_char), then classes, methods, if blocks
\* and lines.
InitIndent ==
    /\ \E cfg \in IndentConfigs : Construct(cfg[1], cfg[2], MaxIndentNodes)
    /\ nodes = <<>>
    /\ root = <<>>
    /\ stack = <<>>
    /\ level = 0
    /\ frames = <<>>
    /\ exc = None
    /\ ManagerInit
    /\ SecondInit

NextIndent ==
    \/ Class_("MyClass", None, None)
    \/ Method("my_method", None, "str", None, FALSE)
    \/ If_("x > 0")
    \/ \E i \in DOMAIN nodes : ContextEnter(i)
    \/ \E p \in DOMAIN nodes, c \in DOMAIN nodes : NodeAddChild(p, c)
    \/ Line("x = 1")
    \/ ExitBlock

SpecIndent == InitIndent /\ [][NextIndent]_vars

\* C19: a line added with line() while k scopes are open is rendered with
\* exactly k * indent_size copies of indent_char before its code, whatever
\* the builder's indent_size and indent_char, and every text generate() can
\* return right after the call has that line once more than the text it
\* could return right before.
Occurrences(lines, line) == Cardinality({i \in DOMAIN lines : lines[i] = line})

C19_LineIndentedByOpenScopes ==
    [][(Len(nodes') = Len(nodes) + 1 /\ Top(nodes').op = "line") =>
          LET k == Len(stack)
              expected == Repeat(_indent_char, k * _indent_size) \o "x = 1"
          IN /\ render(nodes', Len(nodes'), _indent_size, _indent_char) = <<expected>>
             /\ ~RendersItself(nodes') =>
                   \A after \in generate(nodes', root', imports', from_imports'),
                      before \in generate(nodes, root, imports, from_imports) :
                      Occurrences(after, expected) > Occurrences(before, expected)]_vars

C19_Witness ==
    /\ _indent_size = 2
    /\ _indent_char = " "
    /\ Len(nodes) = 4
    /\ nodes[1].cls = "ClassNode"
    /\ nodes[2].cls = "MethodNode"
    /\ nodes[3].cls = "IfNode"
    /\ nodes[4].op = "line"
    /\ Len(stack) = 3
    /\ render(nodes, 4, _indent_size, _indent_char) = <<"      x = 1">>
    /\ JoinLines(render(nodes, 1, _indent_size, _indent_char)) =
          "class MyClass:\n  def my_method(self) -> str:\n    if x > 0:\n      x = 1"

\* C20: no appended leaf is dropped at render time: in the rendering of
\* every block, each child appended through line(), return_(), comment() or
\* blank_line() has its rendered line at its place among the renderings of
\* the block's children, which end the block's rendering; so each
\* blank_line() gives one empty line.
IsPlainLeaf(n) == n.op \in {"line", "return_", "comment", "blank_line"}

\* The lines the first k children of node id render as.
LinesBefore(id, k) ==
    Concat([i \in 1..k |-> render(nodes, nodes[id].children[i], _indent_size, _indent_char)])

C20_EveryLeafRendered ==
    \A id \in DOMAIN nodes :
        \A i \in DOMAIN nodes[id].children :
            LET c == nodes[id].children[i]
                r == render(nodes, id, _indent_size, _indent_char)
                body == ChildLines(id)
            IN (~RendersItself(nodes) /\ IsBlock(nodes[id]) /\ IsPlainLeaf(nodes[c])) =>
                  /\ Len(r) >= Len(body)
                  /\ r[Len(r) - Len(body) + Len(LinesBefore(id, i - 1)) + 1] =
                        render(nodes, c, _indent_size, _indent_char)[1]

\* ------------------------------- a session of classes, methods and leaves
\* Classes, methods and if blocks with attributes, lines and docstrings of
\* two texts, within MaxScopedNodes objects.
DocTexts == {"Doc.", "Other."}

InitScoped ==
    /\ Construct(IndentSize, IndentChar, MaxScopedNodes)
    /\ nodes = <<>>
    /\ root = <<>>
    /\ stack = <<>>
    /\ level = 0
    /\ frames = <<>>
    /\ exc = None
    /\ ManagerInit
    /\ SecondInit

NextScoped ==
    \/ Class_("MyClass", None, None)
    \/ Method("my_method", None, "str", None, FALSE)
    \/ If_("x > 0")
    \/ Attr("field", "str", None)
    \/ Line("x = 1")
    \/ \E text \in DocTexts : Docstring(text)
    \/ \E i \in DOMAIN nodes : ContextEnter(i)
    \/ \E p \in DOMAIN nodes, c \in DOMAIN nodes : NodeAddChild(p, c)
    \/ \E i \in DOMAIN nodes : ContextAttr(i, "field", "str", None)
    \/ \E i \in DOMAIN nodes, text \in DocTexts : ContextDocstring(i, text)
    \/ ExitBlock

SpecScoped == InitScoped /\ [][NextScoped]_vars

\* ------------------------------------------ a session of class bodies
\* Classes and methods with attributes, lines and a docstring, rendered by
\* generate(), within MaxScopedNodes objects.
NextClassBody ==
    \/ Class_("MyClass", None, None)
    \/ Method("my_method", None, "str", None, FALSE)
    \/ Attr("field", "str", None)
    \/ Line("x = 1")
    \/ Docstring("Doc.")
    \/ \E i \in DOMAIN nodes : ContextEnter(i)
    \/ \E p \in DOMAIN nodes, c \in DOMAIN nodes : NodeAddChild(p, c)
    \/ \E i \in DOMAIN nodes : ContextAttr(i, "field", "str", None)
    \/ \E i \in DOMAIN nodes : ContextDocstring(i, "Doc.")
    \/ ExitBlock
    \/ Generate

SpecClassBody == InitScoped /\ [][NextClassBody]_vars

\* ------------------------------------- a session of blocks and imports
\* Methods and if blocks with lines and imports, at root level and inside
\* scopes, within MaxScopedNodes objects.
NextScopedImports ==
    \/ Method("my_method", None, "str", None, FALSE)
    \/ If_("x > 0")
    \/ Line("x = 1")
    \/ BuilderAddImport("os", None)
    \/ BuilderAddFromImport("typing", <<"List", "Dict">>)
    \/ \E i \in DOMAIN nodes : ContextEnter(i)
    \/ \E p \in DOMAIN nodes, c \in DOMAIN nodes : NodeAddChild(p, c)
    \/ ExitBlock
    \/ Generate

SpecScopedImports == InitScoped /\ [][NextScopedImports]_vars

\* ================================================ claims: the operations
\* Node i of nodes is node i of nodes' with one more child, the new node.
GainsNewChild(i) ==
    nodes'[i] = [nodes[i] EXCEPT !.children = nodes[i].children \o <<Len(nodes')>>]

\* One node is constructed and appended to the innermost context's node,
\* or to the root sequence when no context is open; every other sequence
\* is as it was.
AppendsOneNode ==
    /\ Len(nodes') = Len(nodes) + 1
    /\ Top(nodes').children = <<>>
    /\ Top(nodes').attributes = <<>>
    /\ IF stack = <<>>
       THEN /\ root' = root \o <<Len(nodes')>>
            /\ \A i \in DOMAIN nodes : nodes'[i] = nodes[i]
       ELSE /\ root' = root
            /\ \A i \in DOMAIN nodes :
                  IF i = Top(stack).node THEN GainsNewChild(i) ELSE nodes'[i] = nodes[i]

\* C21: the builder's docstring(text) depends on the innermost open scope
\* only.  In a class or function scope it sets the docstring of that scope's
\* node and appends nothing; with an empty stack or in a control-flow scope
\* it appends one Docstring leaf, at the current indentation level, to the
\* innermost scope's node or to the root sequence.  No other step constructs
\* a Docstring leaf, and a step that changes a node's docstring changes
\* nothing else of the tree and is this call in the node's scope or the
\* docstring method of the node's own context object.
C21_DocstringByInnermostScope ==
    [][/\ \A text \in DocTexts :
             Docstring(text) =>
                /\ UNCHANGED <<stack, level, imports, from_imports>>
                /\ IF stack # <<>> /\ Top(stack).ctx \in {"ClassContext", "FunctionContext"}
                   THEN /\ root' = root
                        /\ nodes' = [nodes EXCEPT ![Top(stack).node].docstring = text]
                   ELSE /\ Top(nodes').cls = "DocstringNode"
                        /\ Top(nodes').args.text = text
                        /\ Top(nodes').indent_level = level
                        /\ AppendsOneNode
       /\ \A i \in DOMAIN nodes :
             (i \in DOMAIN nodes' /\ nodes'[i].docstring # nodes[i].docstring) =>
                /\ root' = root
                /\ nodes' = [nodes EXCEPT ![i].docstring = nodes'[i].docstring]
                /\ \/ /\ stack # <<>>
                      /\ Top(stack).ctx \in {"ClassContext", "FunctionContext"}
                      /\ Top(stack).node = i
                   \/ \E text \in DocTexts : ContextDocstring(i, text)
       /\ (Len(nodes') = Len(nodes) + 1 /\ Top(nodes').cls = "DocstringNode") =>
             /\ (stack = <<>> \/ Top(stack).ctx = "ControlFlowContext")
             /\ Top(nodes').indent_level = level
             /\ AppendsOneNode
             /\ UNCHANGED <<stack, level, imports, from_imports>>]_vars

C21_Witness ==
    /\ Len(nodes) = 3
    /\ nodes[1].cls = "MethodNode"
    /\ nodes[1].docstring = None
    /\ nodes[1].children = <<2>>
    /\ nodes[2].cls = "IfNode"
    /\ nodes[2].children = <<3>>
    /\ nodes[3].cls = "DocstringNode"
    /\ nodes[3].indent_level = 2

\* ------------------------------------ a session of functions and methods
\* The params argument of function() and method().
ParamLists ==
    {None, <<>>, <<"x: int">>, <<"self">>, <<"cls">>, <<"self: T">>,
     <<"self", "x: int">>, <<"myself">>, <<"cls_name">>}

NextMethod ==
    \/ Class_("MyClass", None, None)
    \/ \E params \in ParamLists : Method("my_method", params, None, None, FALSE)
    \/ \E params \in ParamLists : Function("my_func", params, None, None, FALSE)
    \/ Line("x = 1")
    \/ ExitBlock
    \/ Generate

SpecMethod == Init /\ [][NextMethod]_vars

\* The parameter p is the receiver binding: self or cls, possibly annotated.
DenotesReceiver(p) == p \in {"self", "cls", "self: T"}

\* The parameter list a method is to have for the params the caller gave.
ExpectedMethodParams(params) ==
    IF params = None \/ params = <<>> THEN <<"self">>
    ELSE IF DenotesReceiver(params[1]) THEN params
    ELSE <<"self">> \o params

\* C22: a method() call without parameters gives the parameter list `self`;
\* with a parameter list whose first entry is not the parameter self or cls
\* (possibly annotated) it gives `self` followed by the caller's parameters;
\* with one whose first entry is, it gives the caller's list.  function()
\* gives the caller's list.  Stated for every params the call can have been
\* made with, over the parameter list the definition line is rendered from.
C22_MethodInjectsSelf ==
    [][Len(nodes') = Len(nodes) + 1 =>
        LET n == Top(nodes') IN
        \A params \in ParamLists :
            /\ (/\ n.cls = "MethodNode"
                /\ n = MethodNode(n.args.name, params, None, None, FALSE, level)) =>
                  format_params(n.args.params) = format_params(ExpectedMethodParams(params))
            /\ (/\ n.cls = "FunctionNode"
                /\ n = FunctionNode(n.args.name, params, None, None, FALSE, level)) =>
                  format_params(n.args.params) =
                      format_params(IF params = None THEN <<>> ELSE params)]_vars

\* C23: entering a block at indentation level d and stack S gives, where the
\* body starts, a new node of indent_level d that is the last child of the
\* node of S's top, or the last element of the root sequence when S is
\* empty, and has no child (it was appended before its context was pushed);
\* the stack is S with the new node's context on top and the level is d + 1.
C23_EnterAppendsThenPushes ==
    [][(Len(stack') > Len(stack) /\ Len(nodes') > Len(nodes)) =>
        /\ AppendsOneNode
        /\ IsBlock(Top(nodes'))
        /\ Top(nodes').indent_level = level
        /\ stack' = Append(stack, Context(ContextOf(Top(nodes')), Len(nodes')))
        /\ level' = level + 1]_vars

C23_Witness ==
    /\ Len(nodes) = 2
    /\ stack = <<Context("ClassContext", 1), Context("FunctionContext", 2)>>
    /\ nodes[1].children = <<2>>
    /\ nodes[2].children = <<>>
    /\ nodes[2].indent_level = 1
    /\ root = <<1>>
    /\ level = 2

\* C24: blocks close in reverse order of opening.  When a with-statement is
\* left, normally or by an exception, the context popped is the one pushed
\* when that with-statement was entered, and the stack is again the stack of
\* just before the entry.
C24_ExitPopsOwnContext ==
    [][Len(frames') < Len(frames) =>
        /\ stack # <<>>
        /\ Top(stack) = Top(frames).ctx
        /\ stack' = Top(frames).S
        /\ frames' = SubSeq(frames, 1, Len(frames) - 1)]_vars

C24_Witness ==
    /\ Len(nodes) = 2
    /\ IsBlock(nodes[1])
    /\ IsBlock(nodes[2])
    /\ nodes[1].children = <<2>>
    /\ stack = <<Context(ContextOf(nodes[1]), 1)>>
    /\ Len(frames) = 1
    /\ frames[1].S = <<>>

IsPrefix(s, t) == Len(s) <= Len(t) /\ SubSeq(t, 1, Len(s)) = s

\* C25: the tree only grows by appending.  In every step the root sequence
\* is a prefix of the new root sequence, every node is still there, and its
\* children and its attributes are prefixes of its new children and
\* attributes; the same then holds between any state and any later one.
C25_TreeGrowsByAppending ==
    [][/\ IsPrefix(root, root')
       /\ Len(nodes) <= Len(nodes')
       /\ \A i \in DOMAIN nodes :
             /\ nodes'[i].cls = nodes[i].cls
             /\ IsPrefix(nodes[i].children, nodes'[i].children)
             /\ IsPrefix(nodes[i].attributes, nodes'[i].attributes)]_vars

C25_Witness ==
    /\ Len(nodes) = 3
    /\ root = <<1>>
    /\ nodes[1].children = <<2, 3>>
    /\ nodes[2].cls = "IfNode"
    /\ nodes[3].cls = "RawLineNode"

\* C26 as stated: the docstring of a class, function or method node is set
\* at most once; once it is set no later operation changes it.
C26_DocstringSetOnce ==
    [][\A i \in DOMAIN nodes :
          nodes[i].docstring # None => nodes'[i].docstring = nodes[i].docstring]_vars

\* C26: the docstring of a node changes only by the builder's docstring()
\* called while that node's class, function or method scope is the innermost
\* open one, or by the docstring() method of the node's own context object,
\* which may be called at any time, also after the scope was closed; every
\* such call replaces the text, set or not, by the text given.
C26_DocstringSetOnlyInOwnScope ==
    [][\A i \in DOMAIN nodes :
          nodes'[i].docstring # nodes[i].docstring =>
             /\ nodes[i].cls \in {"ClassNode", "FunctionNode", "MethodNode"}
             /\ nodes'[i].docstring \in DocTexts
             /\ \/ /\ stack # <<>>
                   /\ Top(stack).node = i
                   /\ Docstring(nodes'[i].docstring)
                \/ ContextDocstring(i, nodes'[i].docstring)]_vars

C26_Witness ==
    /\ Len(nodes) = 2
    /\ nodes[1].cls = "ClassNode"
    /\ nodes[1].docstring = "Other."
    /\ stack = <<>>
    /\ root = <<1, 2>>
    /\ nodes[2].docstring = None

\* C27: line(), return_(), raw(), comment() and blank_line() each append
\* one node as the last child of the innermost open scope's node, or as the
\* last element of the root sequence when no scope is open, and change
\* nothing else: the stack, the indentation level, the import table and
\* every other sequence stay as they are.
C27_LeafAppendsOneNodeOnly ==
    [][(/\ Len(nodes') = Len(nodes) + 1
        /\ Top(nodes').op \in {"line", "return_", "raw", "comment", "blank_line"}) =>
          /\ AppendsOneNode
          /\ UNCHANGED <<stack, level, frames, exc, imports, from_imports, configVars>>]_vars

C27_Witness ==
    /\ Len(nodes) = 2
    /\ stack = <<Context("FunctionContext", 1)>>
    /\ nodes[1].children = <<2>>
    /\ nodes[2].op = "return_"
    /\ root = <<1>>
    /\ level = 1

\* C28: whenever generate() has returned, a class renders its body in the
\* order docstring, attributes, other children, whatever the order of the
\* calls: after the header come the docstring if one is set, then one line
\* per attr() call in call order, then the renderings of the children in
\* insertion order; an attr() made after a line() is rendered before it.
AttributeLines(id) ==
    [i \in DOMAIN nodes[id].attributes |-> Pad(OpenedAt(id) + 1) \o "field: str"]

C28_ClassBodyOrderedByKind ==
    \A id \in DOMAIN nodes :
        (result.kind = "str" /\ nodes[id].cls = "ClassNode") =>
            LET n == nodes[id]
                r == render(nodes, id, _indent_size, _indent_char)
                L == OpenedAt(id)
            IN r = <<Pad(L) \o "class MyClass:">> \o
                   (IF n.docstring # None
                    THEN <<Pad(L + 1) \o "\"\"\"" \o n.docstring \o "\"\"\"">>
                    ELSE <<>>) \o
                   AttributeLines(id) \o
                   ChildLines(id) \o
                   (IF n.docstring = None /\ n.attributes = <<>> /\ n.children = <<>>
                    THEN <<Pad(L + 1) \o "pass">> ELSE <<>>)

C28_Witness ==
    /\ Len(nodes) = 3
    /\ nodes[1].cls = "ClassNode"
    /\ nodes[1].children = <<2>>
    /\ nodes[1].attributes = <<3>>
    /\ nodes[1].docstring = "Doc."
    /\ result.kind = "str"
    /\ result.value = "class MyClass:\n    \"\"\"Doc.\"\"\"\n    field: str\n    x = 1"

\* The nodes a step constructs, in construction order.
NewIds == [k \in 1..(Len(nodes') - Len(nodes)) |-> Len(nodes) + k]

\* C29: an exception raised in a block's body rolls back the nesting state
\* only.  No step that raises an exception, lets it leave a with-statement
\* or catches it changes the tree, so the block's node and the nodes added
\* in it stay where they are; and in every step, before or after an
\* exception, every list of the tree keeps what it holds in its order, and
\* the nodes the step constructs are appended at the end of one list.
C29_ExceptionKeepsTree ==
    [][/\ (exc # None \/ exc' # None) => UNCHANGED <<nodes, root>>
       /\ IsPrefix(root, root')
       /\ \A i \in DOMAIN nodes :
             /\ i \in DOMAIN nodes'
             /\ IsPrefix(nodes[i].children, nodes'[i].children)
             /\ IsPrefix(nodes[i].attributes, nodes'[i].attributes)
       /\ Len(nodes') > Len(nodes) =>
             \/ /\ root' = root \o NewIds
                /\ \A i \in DOMAIN nodes : nodes'[i] = nodes[i]
             \/ /\ root' = root
                /\ \E p \in DOMAIN nodes :
                     /\ \A i \in DOMAIN nodes \ {p} : nodes'[i] = nodes[i]
                     /\ \/ nodes'[p] = [nodes[p] EXCEPT !.children = @ \o NewIds]
                        \/ nodes'[p] = [nodes[p] EXCEPT !.attributes = @ \o NewIds]]_vars

C29_Witness ==
    /\ exc = "Exception"
    /\ frames = <<>>
    /\ stack = <<>>
    /\ level = 0
    /\ Len(nodes) = 2
    /\ root = <<1>>
    /\ nodes[1].cls = "TryNode"
    /\ nodes[1].children = <<2>>
    /\ nodes[2].cls = "RawLineNode"

\* The import statements a line of generate() can be when it is not
\* indented: the import section's lines are of these.
HoistedImportLines ==
    {"import os", "from typing import List, Dict", "from typing import Dict, List"}

CountLines(lines, S) == Cardinality({i \in DOMAIN lines : lines[i] \in S})

\* The step appends one raw line of the text code, at the current
\* indentation level, to the innermost scope's node, and leaves the import
\* table as it is.
AppendsImportLine(code) ==
    /\ AppendsOneNode
    /\ Top(nodes') = RawLineNode("line", code, level)
    /\ UNCHANGED <<imports, from_imports>>

\* C30: imports added while a scope is open are never deduplicated, merged
\* or sorted.  Every add_import and add_from_import call made with a
\* non-empty stack appends one raw import line, whether or not the same
\* line is there already, with the items in the caller's order; and the
\* import section of generate() has one line per entry of the import
\* table, whatever was added inside scopes.
C30_ScopedImportsAppendRawLines ==
    [][/\ (stack # <<>> /\ BuilderAddImport("os", None)) => AppendsImportLine("import os")
       /\ (stack # <<>> /\ BuilderAddFromImport("typing", <<"List", "Dict">>)) =>
             AppendsImportLine("from typing import List, Dict")
       /\ result'.kind = "str" =>
             CountLines(result'.lines, HoistedImportLines) =
                 Cardinality(BagToSet(imports) \cup BagToSet(from_imports))]_vars

C30_Witness ==
    /\ Len(nodes) = 3
    /\ nodes[1].cls = "MethodNode"
    /\ nodes[1].children = <<2, 3>>
    /\ nodes[2] = nodes[3]
    /\ nodes[2].cls = "RawLineNode"
    /\ nodes[2].args.code = "import os"
    /\ imports = EmptyBag
    /\ result.kind = "str"
    /\ result.value = "def my_method(self) -> str:\n    import os\n    import os"
====
